---- MODULE Spec2Model ----
(***************************************************************************)
(* Model of the WhatsApp bridge (whatsapp-mcp/whatsapp-bridge/main.go):    *)
(* the SQLite message store (tables chats and messages), the chat name     *)
(* resolution, the live handlers (handleEvent, handleMessage), the history *)
(* sync handler (handleHistorySync) and the two HTTP handlers (/api/send   *)
(* and /mcp/callTool).                                                     *)
(*                                                                         *)
(* Strings are sequences of tokens, so that concatenation ("Group " +      *)
(* user, user + "@" + server), the test strings.Contains(s, "@") and the   *)
(* split done by ParseJID are computed and not assumed.  The empty string  *)
(* is the empty sequence.  A Go pointer to a string is a record            *)
(* [nil, v]: a nil pointer and a pointer to "" are different values.       *)
(***************************************************************************)
EXTENDS Integers, Sequences, FiniteSets, TLC

(***************************************************************************)
(* Bounds of the model.                                                    *)
(***************************************************************************)
\* number of message envelopes in a conversation of a replayed history sync
MaxMsgs == 2
\* Unix seconds range over 1..MaxTime (0 is protobuf's "timestamp not set")
MaxTime == 2

(***************************************************************************)
(* Strings and addresses.                                                  *)
(***************************************************************************)
Empty == <<>>
Str(tok) == <<tok>>
At == "@"

NilStr == [nil |-> TRUE, v |-> Empty]
Ptr(s) == [nil |-> FALSE, v |-> s]

\* strings.Contains(s, "@")
ContainsAt(s) == \E i \in 1..Len(s) : s[i] = At

\* index of the first "@" of s (0 when there is none)
FirstAt(s) ==
  IF ContainsAt(s)
    THEN CHOOSE i \in 1..Len(s) : s[i] = At /\ \A j \in 1..(i - 1) : s[j] # At
    ELSE 0

GroupServer == Str("g.us")
DefaultUserServer == Str("s.whatsapp.net")

\* types.JID.String(): user@server, or the server alone when the user is empty
JIDString(jid) ==
  IF jid.User # Empty THEN jid.User \o Str(At) \o jid.Server ELSE jid.Server

\* a user part types.ParseJID rejects (too many dots in the user part)
MalformedUser == Str("1.2.3")

\* types.ParseJID: split at "@"; one part is a server-only JID
ParseJID(s) ==
  LET i == FirstAt(s) IN
  IF i = 0
    THEN [err |-> FALSE, jid |-> [User |-> Empty, Server |-> s]]
    ELSE IF SubSeq(s, 1, i - 1) = MalformedUser
      THEN [err |-> TRUE, jid |-> [User |-> Empty, Server |-> Empty]]
      ELSE [err |-> FALSE,
            jid |-> [User |-> SubSeq(s, 1, i - 1), Server |-> SubSeq(s, i + 1, Len(s))]]

GroupJID == [User |-> Str("120"), Server |-> GroupServer]
UserJID == [User |-> Str("555"), Server |-> DefaultUserServer]
ChatJIDs == {GroupJID, UserJID}
BadJIDString == MalformedUser \o Str(At) \o DefaultUserServer

\* client.Store.ID.User, the account's own user
OwnUser == Str("999")

(***************************************************************************)
(* Timestamps.  A time.Time is a number of Unix seconds; the store keeps   *)
(* the text that Format("2006-01-02 15:04:05") makes of it: fixed-width    *)
(* decimal fields, here two digits.                                        *)
(***************************************************************************)
Times == 1..MaxTime

FormatTime(t) == <<(t \div 10) % 10, t % 10>>

\* time.Parse of a stored text
ParseTime(s) == s[1] * 10 + s[2]

(***************************************************************************)
(* The message store: chats is the table chats (jid -> name,               *)
(* last_message_time), messages the table messages ((id, chat_jid) ->      *)
(* the other columns).                                                     *)
(***************************************************************************)
VARIABLES chats, messages, connected, sync, last

vars == <<chats, messages, connected, sync, last>>

EmptyTable == [k \in {} |-> {}]

\* INSERT OR REPLACE: the row of key k is v, the other rows stay
Upsert(table, k, v) == [x \in DOMAIN table \cup {k} |-> IF x = k THEN v ELSE table[x]]

\* MessageStore.StoreChat
StoreChat(chs, jid, name, lastMessageTime) ==
  Upsert(chs, jid, [name |-> name, last_message_time |-> FormatTime(lastMessageTime)])

\* FOREIGN KEY (chat_jid) REFERENCES chats(jid), with _foreign_keys=on
ForeignKeyOK(chs, chatJID) == chatJID \in DOMAIN chs

\* the guard "if content == "" return nil" of StoreMessage
HasContentAlways(content) == TRUE

HasContent(content) == content # Empty

\* (StoreMessage on a table whose key is the message id alone)
StoreMessage_KeyById(chs, msgs, id, chatJID, sender, content, timestamp, isFromMe, mediaType) ==
  IF ~HasContent(content)
    THEN [messages |-> msgs, err |-> FALSE]
    ELSE
      LET snd == IF sender = Empty THEN Str("unknown") ELSE sender
          row == [sender |-> snd, content |-> content,
                  timestamp |-> FormatTime(timestamp),
                  is_from_me |-> isFromMe, media_type |-> mediaType]
          kept == {k \in DOMAIN msgs : k[1] # id}
      IN IF ForeignKeyOK(chs, chatJID)
           THEN [messages |-> Upsert([k \in kept |-> msgs[k]], <<id, chatJID>>, row),
                 err |-> FALSE]
           ELSE [messages |-> msgs, err |-> TRUE]

\* MessageStore.StoreMessage: the new table and whether Exec failed
StoreMessage(chs, msgs, id, chatJID, sender, content, timestamp, isFromMe, mediaType) ==
  IF ~HasContent(content)
    THEN [messages |-> msgs, err |-> FALSE]
    ELSE
      LET snd == IF sender = Empty THEN Str("unknown") ELSE sender
          row == [sender |-> snd, content |-> content,
                  timestamp |-> FormatTime(timestamp),
                  is_from_me |-> isFromMe, media_type |-> mediaType]
      IN IF ForeignKeyOK(chs, chatJID)
           THEN [messages |-> Upsert(msgs, <<id, chatJID>>, row), err |-> FALSE]
           ELSE [messages |-> msgs, err |-> TRUE]

(***************************************************************************)
(* Message payloads (waProto.Message).  A payload is nil or carries the    *)
(* fields the code reads.                                                  *)
(***************************************************************************)
NilMessage == [nil |-> TRUE, Conversation |-> Empty, ExtendedText |-> NilStr,
               Image |-> FALSE]
Payload(conv, ext, img) == [nil |-> FALSE, Conversation |-> conv,
                            ExtendedText |-> ext, Image |-> img]

TextBuy == <<"buy", " ", "10">>

\* no payload, plain text, extended text, an image without caption
Payloads == { NilMessage,
              Payload(TextBuy, NilStr, FALSE),
              Payload(Empty, Ptr(TextBuy), FALSE),
              Payload(Empty, NilStr, TRUE) }

\* extractTextContent
extractTextContent(msg) ==
  IF msg.nil THEN Empty
  ELSE IF msg.Conversation # Empty THEN msg.Conversation
  ELSE IF ~msg.ExtendedText.nil THEN msg.ExtendedText.v
  ELSE Empty

(***************************************************************************)
(* The protocol session's directory, as one invocation of a handler sees   *)
(* it: the answer of client.GetGroupInfo and of                            *)
(* client.Store.Contacts.GetContact.                                       *)
(***************************************************************************)
LookupErr == [err |-> TRUE, name |-> Empty]
Found(name) == [err |-> FALSE, name |-> name]

GroupInfos == {LookupErr, Found(Empty), Found(Str("Team"))}
Contacts == {LookupErr, Found(Empty), Found(Str("Alice"))}
Envs == {env \in [group : GroupInfos, contact : Contacts] :
           /\ env.group.err = env.contact.err
           /\ (env.group.name = Empty) = (env.contact.name = Empty)}

\* the conversation argument of GetChatName: nil (live path) or the fields
\* found by reflection in the history sync conversation
NoConversation == [nil |-> TRUE, DisplayName |-> NilStr, Name |-> NilStr]
ConvHint(dn, n) == [nil |-> FALSE, DisplayName |-> dn, Name |-> n]

\* the short circuit of GetChatName: the chat has a row with a non-empty name
HasStoredNameNever(chs, chatJID) == FALSE

HasStoredName(chs, chatJID) ==
  chatJID \in DOMAIN chs /\ chs[chatJID].name # Empty

\* (GetChatName with the sender tried before the contact directory)
GetChatName_SenderFirst(chs, jid, chatJID, conversation, sender, env) ==
  IF HasStoredName(chs, chatJID)
    THEN [name |-> chs[chatJID].name, groupLookup |-> FALSE, contactLookup |-> FALSE]
  ELSE IF jid.Server = GroupServer
    THEN [name |-> IF ~env.group.err /\ env.group.name # Empty
                     THEN env.group.name
                     ELSE Str("Group ") \o jid.User,
          groupLookup |-> TRUE, contactLookup |-> FALSE]
    ELSE [name |-> IF sender # Empty THEN sender
                     ELSE IF ~env.contact.err /\ env.contact.name # Empty
                       THEN env.contact.name
                       ELSE jid.User,
          groupLookup |-> FALSE, contactLookup |-> TRUE]

\* GetChatName: the name, and which lookups were made against the session
GetChatName(chs, jid, chatJID, conversation, sender, env) ==
  IF HasStoredName(chs, chatJID)
    THEN [name |-> chs[chatJID].name, groupLookup |-> FALSE, contactLookup |-> FALSE]
  ELSE IF jid.Server = GroupServer
    THEN
      LET hinted ==
            IF conversation.nil THEN Empty
            ELSE IF ~conversation.DisplayName.nil /\ conversation.DisplayName.v # Empty
              THEN conversation.DisplayName.v
            ELSE IF ~conversation.Name.nil /\ conversation.Name.v # Empty
              THEN conversation.Name.v
            ELSE Empty
      IN IF hinted # Empty
           THEN [name |-> hinted, groupLookup |-> FALSE, contactLookup |-> FALSE]
           ELSE [name |-> IF ~env.group.err /\ env.group.name # Empty
                            THEN env.group.name
                            ELSE Str("Group ") \o jid.User,
                 groupLookup |-> TRUE, contactLookup |-> FALSE]
    ELSE [name |-> IF ~env.contact.err /\ env.contact.name # Empty
                     THEN env.contact.name
                     ELSE IF sender # Empty THEN sender ELSE jid.User,
          groupLookup |-> FALSE, contactLookup |-> TRUE]

(***************************************************************************)
(* Live events (events.Message): Info.ID, Info.Chat, Info.Sender,          *)
(* Info.Timestamp, Info.IsFromMe and the payload.                          *)
(***************************************************************************)
OtherJID == [User |-> Str("777"), Server |-> DefaultUserServer]
MsgIDs == {Str("m1")}

\* the sender of a live event: the peer of a direct chat, a participant of
\* a group
SenderIn(chat) == IF chat.Server = GroupServer THEN OtherJID ELSE chat

LiveEvents ==
  {[ID |-> id, Chat |-> chat, Sender |-> SenderIn(chat), Timestamp |-> ts,
    IsFromMe |-> FALSE, Message |-> payload] :
     id \in MsgIDs, chat \in ChatJIDs, ts \in Times, payload \in Payloads}

\* handleMessage: name resolution, chat upsert, extraction, message upsert
handleMessage(chs, msgs, msg, env) ==
  LET chatJID == JIDString(msg.Info.Chat)
      sender == msg.Info.Sender.User
      res == GetChatName(chs, msg.Info.Chat, chatJID, NoConversation, sender, env)
      chs2 == StoreChat(chs, chatJID, res.name, msg.Info.Timestamp)
      content == extractTextContent(msg.Message)
      st == StoreMessage(chs2, msgs, msg.Info.ID, chatJID, sender, content,
                         msg.Info.Timestamp, msg.Info.IsFromMe, Str("text"))
  IN [chats |-> chs2,
      messages |-> IF content = Empty THEN msgs ELSE st.messages,
      res |-> res,
      skipped |-> content = Empty,
      err |-> content # Empty /\ st.err]

\* the media type handleEvent derives from the payload
EventMediaType(msg) ==
  IF ~msg.nil /\ msg.Image THEN Str("image") ELSE Str("text")

\* handleEvent, case *events.Message: the message upsert alone
handleEventMessage(chs, msgs, v) ==
  LET chatJID == JIDString(v.Info.Chat)
      sender == JIDString(v.Info.Sender)
      content == extractTextContent(v.Message)
      st == StoreMessage(chs, msgs, v.Info.ID, chatJID, sender, content,
                         v.Info.Timestamp, v.Info.IsFromMe, EventMediaType(v.Message))
  IN [chats |-> chs, messages |-> st.messages, err |-> st.err]

\* an events.Message made of the fields of a live event
EventOf(e) ==
  [Info |-> [ID |-> e.ID, Chat |-> e.Chat, Sender |-> e.Sender,
             Timestamp |-> e.Timestamp, IsFromMe |-> e.IsFromMe],
   Message |-> e.Message]

(***************************************************************************)
(* History sync (events.HistorySync): a list of conversations, each with   *)
(* an ID (a pointer to a string), the naming fields and a list of message  *)
(* envelopes (HistorySyncMsg, most recent first).                          *)
(***************************************************************************)
NilBool == [nil |-> TRUE, v |-> FALSE]
PtrBool(b) == [nil |-> FALSE, v |-> b]

NilKey == [nil |-> TRUE, FromMe |-> NilBool, Participant |-> NilStr, ID |-> NilStr]
Key(fromMe, participant, id) ==
  [nil |-> FALSE, FromMe |-> fromMe, Participant |-> participant, ID |-> id]

\* msg == nil or msg.Message == nil
NilEnvelope == [nil |-> TRUE, Key |-> NilKey, MessageTimestamp |-> 0,
                Message |-> NilMessage]
Envelope(key, ts, payload) ==
  [nil |-> FALSE, Key |-> key, MessageTimestamp |-> ts, Message |-> payload]

\* the text of an envelope (the inline extraction of handleHistorySync)
HistoryContent(payload) ==
  IF payload.nil THEN Empty
  ELSE IF payload.Conversation # Empty THEN payload.Conversation
  ELSE IF ~payload.ExtendedText.nil THEN payload.ExtendedText.v
  ELSE Empty

\* (the sender with the participant tried before the from-me flag)
HistorySender_ParticipantFirst(key, jid) ==
  IF key.nil THEN [sender |-> jid.User, isFromMe |-> FALSE]
  ELSE
    LET isFromMe == IF key.FromMe.nil THEN FALSE ELSE key.FromMe.v IN
    IF ~key.Participant.nil /\ key.Participant.v # Empty
      THEN [sender |-> key.Participant.v, isFromMe |-> isFromMe]
    ELSE IF isFromMe THEN [sender |-> OwnUser, isFromMe |-> isFromMe]
    ELSE [sender |-> jid.User, isFromMe |-> isFromMe]

\* the sender of an envelope and its from-me flag
HistorySender(key, jid) ==
  IF key.nil THEN [sender |-> jid.User, isFromMe |-> FALSE]
  ELSE
    LET isFromMe == IF key.FromMe.nil THEN FALSE ELSE key.FromMe.v IN
    IF ~isFromMe /\ ~key.Participant.nil /\ key.Participant.v # Empty
      THEN [sender |-> key.Participant.v, isFromMe |-> isFromMe]
    ELSE IF isFromMe THEN [sender |-> OwnUser, isFromMe |-> isFromMe]
    ELSE [sender |-> jid.User, isFromMe |-> isFromMe]

\* the message id of an envelope
HistoryMsgID(key) == IF ~key.nil /\ ~key.ID.nil THEN key.ID.v ELSE Empty

\* one turn of the loop over the messages of a conversation
StoreHistoryMessage(chs, st, jid, chatJID, msg) ==
  IF msg.nil THEN st
  ELSE
    LET content == HistoryContent(msg.Message) IN
    IF content = Empty THEN st
    ELSE IF msg.MessageTimestamp = 0 THEN st
    ELSE
      LET snd == HistorySender(msg.Key, jid)
          r == StoreMessage(chs, st.messages, HistoryMsgID(msg.Key), chatJID,
                            snd.sender, content, msg.MessageTimestamp,
                            snd.isFromMe, Str("text"))
      IN [messages |-> r.messages,
          syncedCount |-> IF r.err THEN st.syncedCount ELSE st.syncedCount + 1]

RECURSIVE StoreHistoryMessages_Break(_, _, _, _, _)
\* (the loop over the messages left at the first message it cannot store)
StoreHistoryMessages_Break(chs, st, jid, chatJID, msgs) ==
  IF msgs = <<>> THEN st
  ELSE IF Head(msgs).nil THEN st
  ELSE IF HistoryContent(Head(msgs).Message) = Empty THEN st
  ELSE IF Head(msgs).MessageTimestamp = 0 THEN st
  ELSE StoreHistoryMessages_Break(chs,
                                  StoreHistoryMessage(chs, st, jid, chatJID, Head(msgs)),
                                  jid, chatJID, Tail(msgs))

RECURSIVE StoreHistoryMessages(_, _, _, _, _)
\* the loop over the messages of a conversation
StoreHistoryMessages(chs, st, jid, chatJID, msgs) ==
  IF msgs = <<>> THEN st
  ELSE StoreHistoryMessages(chs, StoreHistoryMessage(chs, st, jid, chatJID, Head(msgs)),
                            jid, chatJID, Tail(msgs))

NoJID == [User |-> Empty, Server |-> Empty]
NoLookup == [name |-> Empty, groupLookup |-> FALSE, contactLookup |-> FALSE]

\* the timestamp test on the most recent message of a conversation
LatestHasTimestampAlways(latestMsg) == TRUE

LatestHasTimestamp(latestMsg) == latestMsg.MessageTimestamp # 0

\* a conversation up to its chat upsert: the address is parsed, the name
\* resolved, and the chat row written with the time of the most recent
\* message; proceed says whether the loop over the messages is entered
ConversationHead(chs, conversation, env) ==
  IF conversation.ID.nil
    THEN [proceed |-> FALSE, chats |-> chs, jid |-> NoJID, chatJID |-> Empty,
          res |-> NoLookup]
  ELSE
    LET chatJID == conversation.ID.v
        parsed == ParseJID(chatJID)
    IN
    IF parsed.err
      THEN [proceed |-> FALSE, chats |-> chs, jid |-> NoJID, chatJID |-> chatJID,
            res |-> NoLookup]
    ELSE
      LET jid == parsed.jid
          res == GetChatName(chs, jid, chatJID,
                             ConvHint(conversation.DisplayName, conversation.Name),
                             Empty, env)
          msgs == conversation.Messages
          skip == [proceed |-> FALSE, chats |-> chs, jid |-> jid,
                   chatJID |-> chatJID, res |-> res]
      IN
      IF Len(msgs) = 0 THEN skip
      ELSE IF msgs[1].nil THEN skip
      ELSE IF ~LatestHasTimestamp(msgs[1]) THEN skip
      ELSE [proceed |-> TRUE,
            chats |-> StoreChat(chs, chatJID, res.name, msgs[1].MessageTimestamp),
            jid |-> jid, chatJID |-> chatJID, res |-> res]

\* (the turn with the chat upsert after the loop over the messages)
SyncConversation_MessagesFirst(st, conversation, env) ==
  LET h == ConversationHead(st.chats, conversation, env) IN
  IF ~h.proceed THEN st
  ELSE
    LET r == StoreHistoryMessages(st.chats,
               [messages |-> st.messages, syncedCount |-> st.syncedCount],
               h.jid, h.chatJID, conversation.Messages)
    IN [chats |-> h.chats, messages |-> r.messages, syncedCount |-> r.syncedCount]

\* one turn of the loop over the conversations: st is the store and the
\* count of stored messages so far
SyncConversation(st, conversation, env) ==
  LET h == ConversationHead(st.chats, conversation, env) IN
  IF ~h.proceed THEN st
  ELSE
    LET r == StoreHistoryMessages(h.chats,
               [messages |-> st.messages, syncedCount |-> st.syncedCount],
               h.jid, h.chatJID, conversation.Messages)
    IN [chats |-> h.chats, messages |-> r.messages, syncedCount |-> r.syncedCount]

RECURSIVE SyncConversations(_, _, _)
\* the loop over the conversations of a batch
SyncConversations(st, conversations, env) ==
  IF conversations = <<>> THEN st
  ELSE SyncConversations(SyncConversation(st, Head(conversations), env),
                         Tail(conversations), env)

\* handleHistorySync: the store after the batch and the count it reports
handleHistorySync(chs, msgs, conversations, env) ==
  SyncConversations([chats |-> chs, messages |-> msgs, syncedCount |-> 0],
                    conversations, env)

(***************************************************************************)
(* The outbound gateway: sendWhatsAppMessage, the /api/send handler of     *)
(* startRESTServer and handleMCPCall.                                      *)
(***************************************************************************)
NotConnectedText == Str("Not connected to WhatsApp")

\* (sendWhatsAppMessage with the recipient parsed before the connection test)
sendWhatsAppMessage_ParseFirst(isConnected, recipient, message, sendErr) ==
  IF ContainsAt(recipient) /\ ParseJID(recipient).err
    THEN [success |-> FALSE, message |-> Str("Error parsing JID: ") \o recipient,
          parsed |-> TRUE, sent |-> FALSE]
  ELSE IF ~isConnected
    THEN [success |-> FALSE, message |-> NotConnectedText,
          parsed |-> ContainsAt(recipient), sent |-> FALSE]
  ELSE IF sendErr
    THEN [success |-> FALSE, message |-> Str("Error sending message: "),
          parsed |-> ContainsAt(recipient), sent |-> TRUE]
  ELSE [success |-> TRUE, message |-> Str("Message sent to ") \o recipient,
        parsed |-> ContainsAt(recipient), sent |-> TRUE]

\* sendWhatsAppMessage: the result, whether the recipient was parsed and
\* whether client.SendMessage was invoked (sendErr: it returned an error)
sendWhatsAppMessage(isConnected, recipient, message, sendErr) ==
  IF ~isConnected
    THEN [success |-> FALSE, message |-> NotConnectedText,
          parsed |-> FALSE, sent |-> FALSE]
  ELSE IF ContainsAt(recipient) /\ ParseJID(recipient).err
    THEN [success |-> FALSE, message |-> Str("Error parsing JID: ") \o recipient,
          parsed |-> TRUE, sent |-> FALSE]
  ELSE IF sendErr
    THEN [success |-> FALSE, message |-> Str("Error sending message: "),
          parsed |-> ContainsAt(recipient), sent |-> TRUE]
  ELSE [success |-> TRUE, message |-> Str("Message sent to ") \o recipient,
        parsed |-> ContainsAt(recipient), sent |-> TRUE]

\* the recipient JID sendWhatsAppMessage dispatches to
RecipientJID(recipient) ==
  IF ContainsAt(recipient) THEN ParseJID(recipient).jid
  ELSE [User |-> recipient, Server |-> DefaultUserServer]

\* a JSON body: malformed, or an object whose fields may be missing
MalformedBody == [bad |-> TRUE, recipient |-> NilStr, message |-> NilStr]
Body(recipient, message) == [bad |-> FALSE, recipient |-> recipient, message |-> message]

\* json Decode into SendMessageRequest: a missing field is the empty string
DecodeSendRequest(body) ==
  [err |-> body.bad,
   Recipient |-> IF body.recipient.nil THEN Empty ELSE body.recipient.v,
   Message |-> IF body.message.nil THEN Empty ELSE body.message.v]

StatusOK == 200
StatusBadRequest == 400
StatusMethodNotAllowed == 405
StatusInternalServerError == 500

HttpError(status, text) ==
  [status |-> status, json |-> FALSE, success |-> FALSE, message |-> text,
   parsed |-> FALSE, sent |-> FALSE]

\* the validation of the /api/send handler
RecipientMissingNever(req) == FALSE

RecipientMissing(req) == req.Recipient = Empty

MessageMissing(req) == req.Message = Empty

\* the handler of /api/send
apiSend(isConnected, method, body, sendErr) ==
  IF method # "POST" THEN HttpError(StatusMethodNotAllowed, Str("Method not allowed"))
  ELSE
    LET req == DecodeSendRequest(body) IN
    IF req.err THEN HttpError(StatusBadRequest, Str("Invalid request format"))
    ELSE IF RecipientMissing(req)
      THEN HttpError(StatusBadRequest, Str("Recipient is required"))
    ELSE IF MessageMissing(req)
      THEN HttpError(StatusBadRequest, Str("Message is required"))
    ELSE
      LET r == sendWhatsAppMessage(isConnected, req.Recipient, req.Message, sendErr) IN
      [status |-> IF r.success THEN StatusOK ELSE StatusInternalServerError,
       json |-> TRUE, success |-> r.success, message |-> r.message,
       parsed |-> r.parsed, sent |-> r.sent]

\* a body of /mcp/callTool: malformed, or a name and arguments that
\* unmarshal or not
MCPBody(name, argsBad) == [bad |-> FALSE, name |-> name, argsBad |-> argsBad]
MalformedMCPBody == [bad |-> TRUE, name |-> Empty, argsBad |-> FALSE]

\* handleMCPCall
handleMCPCall(method, body) ==
  IF method # "POST" THEN HttpError(StatusMethodNotAllowed, Str("Method not allowed"))
  ELSE IF body.bad THEN HttpError(StatusBadRequest, Str("Invalid request body"))
  ELSE IF body.name = Str("send_message")
    THEN IF body.argsBad
           THEN HttpError(StatusBadRequest, Str("Invalid arguments"))
           ELSE [status |-> StatusOK, json |-> TRUE, success |-> TRUE,
                 message |-> Str("Message sent"), parsed |-> FALSE, sent |-> FALSE]
  ELSE HttpError(StatusBadRequest, Str("Unknown API call"))

(***************************************************************************)
(* Inputs of the history sync.                                             *)
(***************************************************************************)
TextPayload == Payload(TextBuy, NilStr, FALSE)
NoTextPayload == Payload(Empty, NilStr, TRUE)

ParticipantKey == Key(PtrBool(FALSE), Ptr(Str("777")), Ptr(Str("m1")))
FromMeKey == Key(PtrBool(TRUE), NilStr, Ptr(Str("m1")))
Keys == {ParticipantKey, FromMeKey}

Envelopes ==
  {NilEnvelope}
    \cup {Envelope(k, ts, TextPayload) : k \in Keys, ts \in 0..MaxTime}
    \cup {Envelope(ParticipantKey, ts, NoTextPayload) : ts \in {0, 1}}

Conversation(id, dn, n, msgs) ==
  [ID |-> id, DisplayName |-> dn, Name |-> n, Messages |-> msgs]

Hints == {<<NilStr, NilStr>>, <<Ptr(Str("Trade")), Ptr(Str("Desk"))>>,
          <<Ptr(Empty), Ptr(Str("Desk"))>>}

\* the conversations whose list of messages is one of lists
ConversationsOver(lists) ==
  {Conversation(NilStr, NilStr, NilStr, <<>>),
   Conversation(Ptr(BadJIDString), NilStr, NilStr, <<>>)}
    \cup {Conversation(Ptr(JIDString(GroupJID)), h[1], h[2], ms) :
            h \in Hints, ms \in lists}
    \cup {Conversation(Ptr(JIDString(UserJID)), NilStr, NilStr, ms) : ms \in lists}

\* a conversation as far as its head reads it: no message, or the most
\* recent one
ConversationHeads == ConversationsOver({<<>>} \cup {<<m>> : m \in Envelopes})

(***************************************************************************)
(* The ingestion state machine.  The live handlers run as one step each.   *)
(* handleHistorySync is a loop over a batch that the session delivers: it  *)
(* runs conversation by conversation and message by message, and the live  *)
(* handlers may run between two of its steps.  sync is its position:       *)
(* "idle" (not running), "batch" (between two conversations) or "msgs"     *)
(* (in the loop over the messages of the conversation sync.chatJID).       *)
(***************************************************************************)
Idle == [phase |-> "idle", jid |-> NoJID, chatJID |-> Empty]

Init ==
  /\ chats = EmptyTable
  /\ messages = EmptyTable
  /\ connected = TRUE
  /\ sync = Idle
  /\ last = [op |-> "init"]

\* the registered callback handleEvent receives an events.Message
HandleEventMessageStep(e) ==
  LET r == handleEventMessage(chats, messages, EventOf(e)) IN
  /\ chats' = r.chats
  /\ messages' = r.messages
  /\ UNCHANGED <<connected, sync>>

HandleEventMessage(e) == HandleEventMessageStep(e) /\ UNCHANGED last

\* handleMessage runs on an events.Message
HandleMessageStep(e, env) ==
  LET r == handleMessage(chats, messages, EventOf(e), env) IN
  /\ chats' = r.chats
  /\ messages' = r.messages
  /\ UNCHANGED <<connected, sync>>

HandleMessage(e, env) == HandleMessageStep(e, env) /\ UNCHANGED last

\* handleHistorySync is entered
SyncBegin ==
  /\ sync.phase = "idle"
  /\ sync' = [sync EXCEPT !.phase = "batch"]
  /\ UNCHANGED last
  /\ UNCHANGED <<chats, messages, connected>>

\* the next conversation of the batch: its head, and the first turn of the
\* loop over its messages (on the most recent message)
SyncConversationBegin(c, env) ==
  /\ sync.phase = "batch"
  /\ LET h == ConversationHead(chats, c, env) IN
     IF h.proceed
       THEN /\ chats' = h.chats
            /\ messages' = StoreHistoryMessage(h.chats,
                             [messages |-> messages, syncedCount |-> 0],
                             h.jid, h.chatJID, c.Messages[1]).messages
            /\ sync' = [phase |-> "msgs", jid |-> h.jid, chatJID |-> h.chatJID]
       ELSE UNCHANGED <<chats, messages, sync>>
  /\ UNCHANGED last
  /\ UNCHANGED connected

\* the next message of the conversation
SyncMessage(m) ==
  /\ sync.phase = "msgs"
  /\ messages' = StoreHistoryMessage(chats, [messages |-> messages, syncedCount |-> 0],
                                     sync.jid, sync.chatJID, m).messages
  /\ UNCHANGED last
  /\ UNCHANGED <<chats, connected, sync>>

\* the conversation has no more messages
SyncConversationEnd ==
  /\ sync.phase = "msgs"
  /\ sync' = [phase |-> "batch", jid |-> NoJID, chatJID |-> Empty]
  /\ UNCHANGED last
  /\ UNCHANGED <<chats, messages, connected>>

\* the batch has no more conversations
SyncEnd ==
  /\ sync.phase = "batch"
  /\ sync' = Idle
  /\ UNCHANGED last
  /\ UNCHANGED <<chats, messages, connected>>

Next ==
  \/ \E e \in LiveEvents : HandleEventMessage(e)
  \/ \E e \in LiveEvents, env \in Envs : HandleMessage(e, env)
  \/ SyncBegin
  \/ \E c \in ConversationHeads, env \in Envs : SyncConversationBegin(c, env)
  \/ \E m \in Envelopes : SyncMessage(m)
  \/ SyncConversationEnd
  \/ SyncEnd

Spec == Init /\ [][Next]_vars

(***************************************************************************)
(* The live path observed: the same two handlers, with last recording the  *)
(* event delivered, the directory the handler saw, whether the message     *)
(* upsert failed and what the name resolution did.                         *)
(***************************************************************************)
NoEnv == [group |-> LookupErr, contact |-> LookupErr]

\* an event arrives at the registered callback
DeliverToHandleEvent(e) ==
  /\ HandleEventMessageStep(e)
  /\ last' = [op |-> "handleEvent", evt |-> e, env |-> NoEnv,
              err |-> handleEventMessage(chats, messages, EventOf(e)).err,
              res |-> NoLookup]

\* an event is given to handleMessage
DeliverToHandleMessage(e, env) ==
  /\ HandleMessageStep(e, env)
  /\ LET r == handleMessage(chats, messages, EventOf(e), env) IN
     last' = [op |-> "handleMessage", evt |-> e, env |-> env, err |-> r.err,
              res |-> r.res]

NextLive ==
  \/ \E e \in LiveEvents : DeliverToHandleEvent(e)
  \/ \E e \in LiveEvents, env \in Envs : DeliverToHandleMessage(e, env)

SpecLive == Init /\ [][NextLive]_vars

(***************************************************************************)
(* Claims on the live path.                                                *)
(***************************************************************************)
\* the key of the message row of a live event
EventKey(e) == <<e.ID, JIDString(e.Chat)>>

\* C1: after a message event with non-empty text has been delivered to the
\* registered callback, the store holds the message row of (id, chat
\* address), and delivering the identical event again changes neither table.
C1_IdempotentRedelivery ==
  (last.op = "handleEvent" /\ extractTextContent(last.evt.Message) # Empty) =>
    LET again == handleEventMessage(chats, messages, EventOf(last.evt)) IN
    /\ EventKey(last.evt) \in DOMAIN messages
    /\ again.chats = chats
    /\ again.messages = messages

\* C2: a step that delivers a message event with empty text to the
\* registered callback creates no message row and leaves the chat row of
\* the event's chat with the event's timestamp as last activity.
C2_EmptyTextRefreshesChat ==
  [][(last'.op = "handleEvent" /\ extractTextContent(last'.evt.Message) = Empty) =>
       /\ messages' = messages
       /\ JIDString(last'.evt.Chat) \in DOMAIN chats'
       /\ chats'[JIDString(last'.evt.Chat)].last_message_time
            = FormatTime(last'.evt.Timestamp)]_vars

\* every conversation argument, sender and directory GetChatName may be given
AnyConversation == {NoConversation} \cup {ConvHint(h[1], h[2]) : h \in Hints}
AnySender == {Empty, Str("555"), Str("777")}
AnyEnv == [group : GroupInfos, contact : Contacts]

\* C3: for a chat whose row holds a non-empty name, GetChatName returns that
\* name and makes neither lookup, whatever conversation hint, sender and
\* directory it is given.
C3_StoredNameWins ==
  \A jid \in ChatJIDs :
    (JIDString(jid) \in DOMAIN chats /\ chats[JIDString(jid)].name # Empty) =>
      \A conversation \in AnyConversation, sender \in AnySender, env \in AnyEnv :
        GetChatName(chats, jid, JIDString(jid), conversation, sender, env)
          = [name |-> chats[JIDString(jid)].name,
             groupLookup |-> FALSE, contactLookup |-> FALSE]

\* handleMessage resolved the name of the group from its row, without a
\* lookup, while the session knew another name for it
C3_Witness ==
  /\ last.op = "handleMessage"
  /\ last.evt.Chat = GroupJID
  /\ last.env.group = Found(Str("Team"))
  /\ ~last.res.groupLookup
  /\ last.res.name = Str("Group ") \o GroupJID.User
  /\ chats[JIDString(GroupJID)].name = last.res.name

\* C6: after every step of the live path every row of messages names a
\* chat that has a row in chats, and the handler that handled an event with
\* text has upserted the chat row of the event, with its timestamp, for the
\* message upsert to follow.
C6_ChatUpsertBeforeMessage ==
  [][/\ \A key \in DOMAIN messages' : key[2] \in DOMAIN chats'
     /\ (last'.op \in {"handleEvent", "handleMessage"}
           /\ extractTextContent(last'.evt.Message) # Empty) =>
          /\ JIDString(last'.evt.Chat) \in DOMAIN chats'
          /\ chats'[JIDString(last'.evt.Chat)].last_message_time
               = FormatTime(last'.evt.Timestamp)]_vars

(***************************************************************************)
(* A history sync batch handled as a whole and then handled again: the     *)
(* store holds what at most one live message left in it, handleHistorySync *)
(* runs on a batch, and runs again on the same batch, the directory free   *)
(* to answer differently.  last records the batch, the directory, the      *)
(* tables as they were before the run and the count the run reported.      *)
(***************************************************************************)
SecondKey == Key(PtrBool(TRUE), NilStr, Ptr(Str("m2")))

ListEnvelopes ==
  {NilEnvelope, Envelope(SecondKey, 1, TextPayload),
   Envelope(ParticipantKey, 1, NoTextPayload)}
    \cup {Envelope(ParticipantKey, ts, TextPayload) : ts \in 0..MaxTime}

MessageLists == UNION {[1..n -> ListEnvelopes] : n \in 0..MaxMsgs}

\* a conversation of one text message, with or without timestamp
TailConversations ==
  {Conversation(Ptr(JIDString(jid)), NilStr, NilStr,
                <<Envelope(ParticipantKey, ts, TextPayload)>>) :
     jid \in ChatJIDs, ts \in 0..MaxTime}

\* one conversation with up to MaxMsgs messages, or two conversations of
\* one message each
Batches ==
  {<<c>> : c \in ConversationHeads}
    \cup {<<Conversation(Ptr(JIDString(jid)), NilStr, NilStr, ms)>> :
            jid \in ChatJIDs, ms \in MessageLists}
    \cup {<<c, d>> : c \in ConversationHeads, d \in TailConversations}

SeedEvents == {e \in LiveEvents : e.Message = Payload(TextBuy, NilStr, FALSE)}

\* a live message is handled before the batch arrives
Seed(e, env) ==
  /\ last.op = "init"
  /\ HandleMessageStep(e, env)
  /\ last' = [op |-> "seed"]

\* handleHistorySync runs on the batch b
SyncBatch(b, env) ==
  /\ last.op \in {"init", "seed"}
  /\ LET r == handleHistorySync(chats, messages, b, env) IN
     /\ chats' = r.chats
     /\ messages' = r.messages
     /\ last' = [op |-> "sync", batch |-> b, env |-> env, chats0 |-> chats,
                 messages0 |-> messages, syncedCount |-> r.syncedCount]
  /\ UNCHANGED <<connected, sync>>

\* handleHistorySync runs on the same batch again, the directory answering
\* as env
Replay(env) ==
  /\ last.op = "sync"
  /\ LET r == handleHistorySync(chats, messages, last.batch, env) IN
     /\ chats' = r.chats
     /\ messages' = r.messages
     /\ last' = [op |-> "replay", batch |-> last.batch, env |-> env,
                 chats0 |-> chats, messages0 |-> messages,
                 syncedCount |-> r.syncedCount]
  /\ UNCHANGED <<connected, sync>>

NextReplay ==
  \/ \E e \in SeedEvents, env \in Envs : Seed(e, env)
  \/ \E b \in Batches, env \in Envs : SyncBatch(b, env)
  \/ \E env \in Envs : Replay(env)

SpecReplay == Init /\ [][NextReplay]_vars

(***************************************************************************)
(* Claims on the history sync.                                             *)
(***************************************************************************)
\* C4: after handleHistorySync has run a second time on an identical batch,
\* the tables chats and messages hold the rows, with the contents, they held
\* after the first run.
C4_ReplayChangesNothing ==
  last.op = "replay" => (chats = last.chats0 /\ messages = last.messages0)

\* a batch that stored a chat row and messages was replayed
C4_Witness ==
  /\ last.op = "replay"
  /\ last.syncedCount > 0
  /\ Len(last.batch) = 2
  /\ Cardinality(DOMAIN messages) = 2

\* the conversation has a parseable address and a most recent message
\* without timestamp
NoTimestampConversation(c) ==
  /\ ~c.ID.nil
  /\ FirstAt(c.ID.v) # 0
  /\ SubSeq(c.ID.v, 1, FirstAt(c.ID.v) - 1) # MalformedUser
  /\ Len(c.Messages) > 0
  /\ ~c.Messages[1].nil
  /\ c.Messages[1].MessageTimestamp = 0

\* the conversation has a parseable address and a most recent message with
\* a timestamp
TimestampedConversation(c) ==
  /\ ~c.ID.nil
  /\ FirstAt(c.ID.v) # 0
  /\ SubSeq(c.ID.v, 1, FirstAt(c.ID.v) - 1) # MalformedUser
  /\ Len(c.Messages) > 0
  /\ ~c.Messages[1].nil
  /\ c.Messages[1].MessageTimestamp # 0

\* the row of chat address a (a set: empty when there is no row)
RowOf(table, a) == {table[k] : k \in DOMAIN table \cap {a}}

\* C5: when handleHistorySync has run on a batch, a chat all of whose
\* conversations in the batch have a most recent message without timestamp
\* has the row it had before (none, or the same name and last activity), and
\* a later conversation of the batch whose most recent message has a
\* timestamp has got its chat row.
C5_NoTimestampSkipsChat ==
  last.op = "sync" =>
    \A i \in 1..Len(last.batch) :
      NoTimestampConversation(last.batch[i]) =>
        /\ (\A j \in 1..Len(last.batch) :
              last.batch[j].ID = last.batch[i].ID
                => NoTimestampConversation(last.batch[j]))
             => RowOf(chats, last.batch[i].ID.v) = RowOf(last.chats0, last.batch[i].ID.v)
        /\ \A j \in (i + 1)..Len(last.batch) :
             TimestampedConversation(last.batch[j])
               => /\ last.batch[j].ID.v \in DOMAIN chats
                  /\ chats[last.batch[j].ID.v].last_message_time
                       = FormatTime(last.batch[j].Messages[1].MessageTimestamp)

\* the chat of the first conversation had a row, its most recent message
\* has no timestamp, and the second conversation got its chat row
C5_Witness ==
  /\ last.op = "sync"
  /\ Len(last.batch) = 2
  /\ NoTimestampConversation(last.batch[1])
  /\ last.batch[1].ID.v \in DOMAIN last.chats0
  /\ TimestampedConversation(last.batch[2])
  /\ last.batch[2].ID # last.batch[1].ID
  /\ last.batch[2].ID.v \in DOMAIN chats
  /\ last.batch[2].ID.v \notin DOMAIN last.chats0

(***************************************************************************)
(* Claims on the store.                                                    *)
(***************************************************************************)
\* every row of messages names, in chat_jid, a chat that has a row in chats
MessageHasChat ==
  \A key \in DOMAIN messages : key[2] \in DOMAIN chats

AnyRowID == {Str("m1"), Empty}
AnyRowSender == {Empty, Str("777")}

\* C7: every row of messages has a non-empty content, and StoreMessage
\* called with an empty content returns no error and leaves the table as it
\* is, whatever the other arguments.
C7_NoEmptyContent ==
  /\ \A key \in DOMAIN messages : messages[key].content # Empty
  /\ \A id \in AnyRowID, jid \in ChatJIDs \cup {OtherJID}, sender \in AnyRowSender,
        ts \in Times, isFromMe \in BOOLEAN, mediaType \in {Empty, Str("image")} :
       StoreMessage(chats, messages, id, JIDString(jid), sender, Empty, ts,
                    isFromMe, mediaType)
         = [messages |-> messages, err |-> FALSE]

\* the two tables have rows, one chat has a text message and the other has
\* none
C7_Witness ==
  /\ DOMAIN chats = {JIDString(GroupJID), JIDString(UserJID)}
  /\ DOMAIN messages = {<<Str("m1"), JIDString(GroupJID)>>}
  /\ messages[<<Str("m1"), JIDString(GroupJID)>>].content = TextBuy
  /\ chats[JIDString(UserJID)].last_message_time = FormatTime(MaxTime)

(***************************************************************************)
(* The outbound gateway: requests to /api/send and /mcp/callTool arrive    *)
(* while the session connects and disconnects.  The store holds what at    *)
(* most one live message left in it.  last records the request, whether    *)
(* the session was connected, and the response.                            *)
(***************************************************************************)
Recipients == {NilStr, Ptr(Empty), Ptr(Str("555")), Ptr(JIDString(UserJID)),
               Ptr(BadJIDString)}
SendTexts == {NilStr, Ptr(Empty), Ptr(Str("hi"))}
SendBodies == {MalformedBody} \cup {Body(r, m) : r \in Recipients, m \in SendTexts}
Methods == {"POST", "GET"}
MCPBodies == {MalformedMCPBody}
               \cup {MCPBody(n, b) : n \in {Str("send_message"), Str("list_chats")},
                                     b \in BOOLEAN}

\* a live message is handled before the requests arrive
GatewaySeed(e, env) ==
  /\ last.op = "init"
  /\ HandleMessageStep(e, env)
  /\ last' = [op |-> "seed"]

\* the sent message recorded in the store
ApiSend_Storing(method, body, sendErr) ==
  LET resp == apiSend(connected, method, body, sendErr)
      chatJID == JIDString(RecipientJID(body.recipient.v))
      chs == StoreChat(chats, chatJID, body.recipient.v, 1)
  IN
  /\ last' = [op |-> "apiSend", method |-> method, body |-> body,
              sendErr |-> sendErr, connected |-> connected, resp |-> resp]
  /\ chats' = IF resp.success THEN chs ELSE chats
  /\ messages' = IF resp.success
                   THEN StoreMessage(chs, messages, Str("m1"), chatJID, OwnUser,
                                     body.message.v, 1, TRUE, Empty).messages
                   ELSE messages
  /\ UNCHANGED <<connected, sync>>

\* a request arrives at /api/send; sendErr: client.SendMessage, if invoked,
\* returns an error
ApiSend(method, body, sendErr) ==
  /\ last' = [op |-> "apiSend", method |-> method, body |-> body,
              sendErr |-> sendErr, connected |-> connected,
              resp |-> apiSend(connected, method, body, sendErr)]
  /\ UNCHANGED <<chats, messages, connected, sync>>

\* a request arrives at /mcp/callTool
MCPCall(method, body) ==
  /\ last' = [op |-> "mcpCall", method |-> method, body |-> body,
              sendErr |-> FALSE, connected |-> connected,
              resp |-> handleMCPCall(method, body)]
  /\ UNCHANGED <<chats, messages, connected, sync>>

\* events.Disconnected: the session is no longer connected
Disconnected ==
  /\ connected
  /\ connected' = FALSE
  /\ UNCHANGED <<chats, messages, sync, last>>

\* events.Connected: the session is connected again
Connected ==
  /\ ~connected
  /\ connected' = TRUE
  /\ UNCHANGED <<chats, messages, sync, last>>

NextGateway ==
  \/ \E e \in SeedEvents, env \in Envs : GatewaySeed(e, env)
  \/ \E method \in Methods, body \in SendBodies, sendErr \in BOOLEAN :
       ApiSend(method, body, sendErr)
  \/ \E method \in Methods, body \in MCPBodies : MCPCall(method, body)
  \/ Disconnected
  \/ Connected

SpecGateway == Init /\ [][NextGateway]_vars

(***************************************************************************)
(* Claims on the outbound gateway.                                         *)
(***************************************************************************)
\* a field of the JSON body that is missing or the empty string
FieldAbsent(f) == f.nil \/ f.v = Empty

\* C8: the response to a request to /api/send whose recipient or whose
\* message is empty or missing has a client-error status (4xx), and
\* client.SendMessage was not invoked for it.
C8_MissingFieldRejected ==
  (last.op = "apiSend"
     /\ (FieldAbsent(last.body.recipient) \/ FieldAbsent(last.body.message))) =>
    /\ last.resp.status \in 400..499
    /\ ~last.resp.sent

\* a POST with a recipient and no message, on a connected session, was
\* answered "Message is required"
C8_Witness ==
  /\ last.op = "apiSend"
  /\ last.method = "POST"
  /\ last.connected
  /\ last.body = Body(Ptr(Str("555")), NilStr)
  /\ last.resp.status = StatusBadRequest
  /\ last.resp.message = Str("Message is required")

\* C9: while the session is not connected, sendWhatsAppMessage returns
\* (false, "Not connected to WhatsApp") for every recipient and text, with
\* the recipient not parsed and client.SendMessage not invoked; a request
\* that reached it got this result as its response.
C9_NotConnectedFailsFast ==
  /\ ~connected =>
       \A r \in Recipients, m \in SendTexts, sendErr \in BOOLEAN :
         sendWhatsAppMessage(connected, r.v, m.v, sendErr)
           = [success |-> FALSE, message |-> NotConnectedText,
              parsed |-> FALSE, sent |-> FALSE]
  /\ (last.op = "apiSend" /\ ~last.connected /\ last.resp.json) =>
       /\ ~last.resp.success
       /\ last.resp.message = NotConnectedText
       /\ ~last.resp.parsed
       /\ ~last.resp.sent

\* a request with a recipient that does not parse arrived while the session
\* was not connected, and was answered "Not connected to WhatsApp"
C9_Witness ==
  /\ last.op = "apiSend"
  /\ ~last.connected
  /\ last.body = Body(Ptr(BadJIDString), Ptr(Str("hi")))
  /\ last.resp.json
  /\ last.resp.status = StatusInternalServerError
  /\ last.resp.message = NotConnectedText

\* C10: a step in which a request to /api/send or /mcp/callTool is served
\* leaves the tables chats and messages as they are, whatever the outcome
\* of the request.
C10_GatewayLeavesStore ==
  [][(last' # last /\ last'.op \in {"apiSend", "mcpCall"}) =>
       (chats' = chats /\ messages' = messages)]_vars

\* a message was sent with success while the store had rows
C10_Witness ==
  /\ last.op = "apiSend"
  /\ last.resp.success
  /\ last.resp.sent
  /\ DOMAIN chats # {}
  /\ DOMAIN messages # {}

(***************************************************************************)
(* The queries of the store.  GetChats reads the rows of chats in the      *)
(* order of the SELECT and puts them in a Go map; a caller that lists the  *)
(* chats ranges over the map, and the order of a range over a map is not   *)
(* specified: any order of the keys may come out.  last records the map    *)
(* returned and the order in which the caller saw its entries.             *)
(***************************************************************************)
\* the sequences that enumerate the set S, each element once
Enumerations(S) ==
  {f \in [1..Cardinality(S) -> S] : \A i, j \in DOMAIN f : f[i] = f[j] => i = j}

\* comparison of two stored last_message_time texts (ORDER BY on the column)
TimeTextLess(a, b) == a[1] < b[1] \/ (a[1] = b[1] /\ a[2] < b[2])

\* the rows of "SELECT jid, last_message_time FROM chats ORDER BY
\* last_message_time DESC": every order of the rows the clause allows
SelectChatsOrdered(chs) ==
  {rows \in Enumerations(DOMAIN chs) :
     \A i, j \in DOMAIN rows :
       i < j => ~TimeTextLess(chs[rows[i]].last_message_time,
                              chs[rows[j]].last_message_time)}

RECURSIVE ScanIntoMap(_, _, _)
\* the loop over rows.Next(): chats[jid] = lastMessageTime
ScanIntoMap(chs, rows, m) ==
  IF rows = <<>> THEN m
  ELSE ScanIntoMap(chs, Tail(rows),
                   Upsert(m, Head(rows), ParseTime(chs[Head(rows)].last_message_time)))

\* MessageStore.GetChats: the maps it may return (one per order of the rows)
GetChats(chs) == {ScanIntoMap(chs, rows, EmptyTable) : rows \in SelectChatsOrdered(chs)}

\* a live message is handled
QuerySeed(e, env) ==
  /\ HandleMessageStep(e, env)
  /\ last' = [op |-> "seed"]

\* GetChats is called and the caller ranges over the map it returned
ListChats ==
  /\ \E m \in GetChats(chats) : \E order \in Enumerations(DOMAIN m) :
       last' = [op |-> "getChats", result |-> m, order |-> order]
  /\ UNCHANGED <<chats, messages, connected, sync>>

NextQuery ==
  \/ \E e \in LiveEvents, env \in Envs : QuerySeed(e, env)
  \/ ListChats

SpecQuery == Init /\ [][NextQuery]_vars

\* C11: the chats GetChats returned are all the chats of the store, and in
\* the order the caller sees them a chat with a later last activity comes
\* before a chat with an earlier one.
C11_ChatsByLastActivityDesc ==
  last.op = "getChats" =>
    /\ DOMAIN last.result = DOMAIN chats
    /\ \A i, j \in DOMAIN last.order :
         last.result[last.order[i]] > last.result[last.order[j]] => i < j

(***************************************************************************)
(* The name resolution exercised by both ingestion handlers, on the        *)
(* addresses of the other specifications and on an address without user    *)
(* part ("s.whatsapp.net": ParseJID accepts a text without "@" as a        *)
(* server).  last records what the handler was given and what GetChatName  *)
(* answered.                                                               *)
(***************************************************************************)
ServerJID == [User |-> Empty, Server |-> DefaultUserServer]

ResolveEvents ==
  LiveEvents
    \cup {[ID |-> Str("m1"), Chat |-> ServerJID, Sender |-> ServerJID,
           Timestamp |-> ts, IsFromMe |-> FALSE, Message |-> TextPayload] :
            ts \in Times}

ResolveConversations ==
  ConversationHeads
    \cup {Conversation(Ptr(JIDString(ServerJID)), NilStr, NilStr,
                       <<Envelope(ParticipantKey, 1, TextPayload)>>)}

\* a live message was handled before
ResolveSeed(e, env) ==
  /\ last.op = "init"
  /\ HandleMessageStep(e, env)
  /\ last' = [op |-> "seed"]

\* handleMessage runs on a live event
ResolveLive(e, env) ==
  /\ last.op \in {"init", "seed"}
  /\ DeliverToHandleMessage(e, env)

\* handleHistorySync runs on a batch of one conversation; resolved: it
\* reached the call of GetChatName
ReconcileOne(c, env) ==
  /\ last.op \in {"init", "seed"}
  /\ LET r == handleHistorySync(chats, messages, <<c>>, env)
         h == ConversationHead(chats, c, env)
     IN
     /\ chats' = r.chats
     /\ messages' = r.messages
     /\ last' = [op |-> "handleHistorySync", conversation |-> c, env |-> env,
                 resolved |-> h.jid # NoJID, stored |-> h.proceed, res |-> h.res]
  /\ UNCHANGED <<connected, sync>>

NextResolve ==
  \/ \E e \in ResolveEvents, env \in Envs : ResolveSeed(e, env)
  \/ \E e \in ResolveEvents, env \in Envs : ResolveLive(e, env)
  \/ \E c \in ResolveConversations, env \in Envs : ReconcileOne(c, env)

SpecResolve == Init /\ [][NextResolve]_vars

RECURSIVE FirstNonEmpty(_)
\* the first non-empty text of a list of candidates (empty when all are)
FirstNonEmpty(candidates) ==
  IF candidates = <<>> THEN Empty
  ELSE IF Head(candidates) # Empty THEN Head(candidates)
  ELSE FirstNonEmpty(Tail(candidates))

\* the text of a hint or of a lookup answer, empty when there is none
HintText(conversation, f) == IF conversation.nil \/ f.nil THEN Empty ELSE f.v
AnswerText(answer) == IF answer.err THEN Empty ELSE answer.name

AnyJID == ChatJIDs \cup {ServerJID}

\* C12: for an address that has no non-empty name stored, GetChatName
\* returns the first non-empty candidate: for a group the DisplayName of the
\* conversation, its Name, the name of the group info, "Group " + user; for
\* a contact the full name of the contact, the sender, the user of the
\* address.
C12_NamePriority ==
  \A jid \in AnyJID :
    (JIDString(jid) \notin DOMAIN chats \/ chats[JIDString(jid)].name = Empty) =>
      \A conversation \in AnyConversation, sender \in AnySender, env \in AnyEnv :
        GetChatName(chats, jid, JIDString(jid), conversation, sender, env).name
          = IF jid.Server = GroupServer
              THEN FirstNonEmpty(<<HintText(conversation, conversation.DisplayName),
                                   HintText(conversation, conversation.Name),
                                   AnswerText(env.group),
                                   Str("Group ") \o jid.User>>)
              ELSE FirstNonEmpty(<<AnswerText(env.contact), sender, jid.User>>)

\* a contact chat got the full name of the contact while the sender was
\* known too, and the group has no name stored
C12_Witness ==
  /\ last.op = "handleMessage"
  /\ last.evt.Chat = UserJID
  /\ last.res.contactLookup
  /\ last.res.name = Str("Alice")
  /\ chats[JIDString(UserJID)].name = Str("Alice")
  /\ JIDString(GroupJID) \notin DOMAIN chats

\* C13: the name GetChatName returned to an ingestion handler is not
\* empty, whatever the address, the stored name, the hints, the lookup
\* answers and the sender, and no row of chats has an empty name.
C13_NameNeverEmpty ==
  /\ last.op = "handleMessage" => last.res.name # Empty
  /\ (last.op = "handleHistorySync" /\ last.resolved) => last.res.name # Empty
  /\ \A k \in DOMAIN chats : chats[k].name # Empty

(***************************************************************************)
(* Storage errors in the live path.  db.Exec may fail for a reason of its  *)
(* own (disk, lock): io.chat and io.message tell whether the Exec of       *)
(* StoreChat and of StoreMessage fails.  A failed Exec writes nothing.     *)
(***************************************************************************)
IOs == [chat : BOOLEAN, message : BOOLEAN]

\* MessageStore.StoreChat whose Exec fails when fails
StoreChatIO(chs, jid, name, lastMessageTime, fails) ==
  IF fails THEN [chats |-> chs, err |-> TRUE]
  ELSE [chats |-> StoreChat(chs, jid, name, lastMessageTime), err |-> FALSE]

\* MessageStore.StoreMessage whose Exec fails when fails; the guard on the
\* empty content returns before the Exec
StoreMessageIO(chs, msgs, id, chatJID, sender, content, timestamp, isFromMe, mediaType, fails) ==
  IF HasContent(content) /\ fails THEN [messages |-> msgs, err |-> TRUE]
  ELSE StoreMessage(chs, msgs, id, chatJID, sender, content, timestamp, isFromMe,
                    mediaType)

\* handleMessage with the errors of the two upserts: what it left in the
\* tables, the error of each upsert, and how many times each was called
handleMessageIO(chs, msgs, msg, env, io) ==
  LET chatJID == JIDString(msg.Info.Chat)
      sender == msg.Info.Sender.User
      res == GetChatName(chs, msg.Info.Chat, chatJID, NoConversation, sender, env)
      sc == StoreChatIO(chs, chatJID, res.name, msg.Info.Timestamp, io.chat)
      content == extractTextContent(msg.Message)
      st == StoreMessageIO(sc.chats, msgs, msg.Info.ID, chatJID, sender, content,
                           msg.Info.Timestamp, msg.Info.IsFromMe, Str("text"),
                           io.message)
  IN [chats |-> sc.chats,
      messages |-> IF content = Empty THEN msgs ELSE st.messages,
      chatErr |-> sc.err,
      messageErr |-> content # Empty /\ st.err,
      chatCalls |-> 1,
      messageCalls |-> IF content = Empty THEN 0 ELSE 1]

\* handleEvent, case *events.Message, with the error of the message upsert
handleEventMessageIO(chs, msgs, v, io) ==
  LET chatJID == JIDString(v.Info.Chat)
      st == StoreMessageIO(chs, msgs, v.Info.ID, chatJID, JIDString(v.Info.Sender),
                           extractTextContent(v.Message), v.Info.Timestamp,
                           v.Info.IsFromMe, EventMediaType(v.Message), io.message)
  IN [chats |-> chs, messages |-> st.messages, chatErr |-> FALSE,
      messageErr |-> st.err, chatCalls |-> 0, messageCalls |-> 1]

\* a live message was handled before, without error
FaultSeed(e, env) ==
  /\ last.op = "init"
  /\ HandleMessageStep(e, env)
  /\ last' = [op |-> "seed"]

\* the handler answered r on the event e
Handled(op, e, io, r) ==
  /\ chats' = r.chats
  /\ messages' = r.messages
  /\ last' = [op |-> op, evt |-> e, io |-> io, chatErr |-> r.chatErr,
              messageErr |-> r.messageErr, chatCalls |-> r.chatCalls,
              messageCalls |-> r.messageCalls, chats0 |-> chats,
              messages0 |-> messages]
  /\ UNCHANGED <<connected, sync>>

\* handleMessage runs on a live event while the storage may fail
FaultyHandleMessage(e, env, io) ==
  /\ last.op \in {"init", "seed"}
  /\ Handled("handleMessage", e, io, handleMessageIO(chats, messages, EventOf(e), env, io))

\* the registered callback runs on a live event while the storage may fail
FaultyHandleEvent(e, io) ==
  /\ last.op \in {"init", "seed"}
  /\ ~io.chat
  /\ Handled("handleEvent", e, io, handleEventMessageIO(chats, messages, EventOf(e), io))

NextFaults ==
  \/ \E e \in LiveEvents, env \in Envs : FaultSeed(e, env)
  \/ \E e \in LiveEvents, env \in Envs, io \in IOs : FaultyHandleMessage(e, env, io)
  \/ \E e \in LiveEvents, io \in IOs : FaultyHandleEvent(e, io)

SpecFaults == Init /\ [][NextFaults]_vars

\* C14: when a live handler got a storage error from the chat upsert or
\* from the message upsert, the event is dropped: the table messages is as
\* it was before the event, no message upsert was attempted after a failed
\* chat upsert, and no upsert was called a second time.
C14_StorageErrorDropsEvent ==
  (last.op \in {"handleMessage", "handleEvent"}
     /\ (last.chatErr \/ last.messageErr)) =>
    /\ messages = last.messages0
    /\ last.chatErr => last.messageCalls = 0
    /\ last.chatCalls <= 1
    /\ last.messageCalls <= 1

(***************************************************************************)
(* Claims on the tool invocation endpoint (/mcp/callTool).                 *)
(***************************************************************************)
\* C15: a response of /mcp/callTool reports a success only if
\* client.SendMessage was invoked for the request and succeeded, and a
\* request naming another operation than send_message gets a client error
\* (4xx) and no send.
C15_ToolCallSends ==
  last.op = "mcpCall" =>
    /\ last.resp.success => last.resp.sent
    /\ (last.method = "POST" /\ ~last.body.bad /\ last.body.name # Str("send_message")) =>
         /\ last.resp.status \in 400..499
         /\ ~last.resp.sent

(***************************************************************************)
(* Claims on the order of the messages of a conversation.                  *)
(***************************************************************************)
\* the lists that hold the envelopes of msgs in another order
Reordered(msgs) ==
  {[i \in DOMAIN msgs |-> msgs[f[i]]] : f \in Enumerations(DOMAIN msgs)}

\* C16: when handleHistorySync has run on a batch of one conversation, the
\* tables are those it would have left had the messages of the conversation
\* come in any other order: same chat row (name, last activity), same rows
\* of messages.
C16_EnvelopeOrderIrrelevant ==
  (last.op = "sync" /\ Len(last.batch) = 1) =>
    \A ms \in Reordered(last.batch[1].Messages) :
      LET r == handleHistorySync(last.chats0, last.messages0,
                 <<[last.batch[1] EXCEPT !.Messages = ms]>>, last.env)
      IN r.chats = chats /\ r.messages = messages

(***************************************************************************)
(* The two ingestion handlers running at the same time on one store.       *)
(* handleMessage runs on a live event and handleHistorySync on a batch of  *)
(* one conversation; each statement that reads or writes the store is a    *)
(* step of its own, and the steps of the two handlers interleave freely.   *)
(* last holds the inputs, the tables at the start and the position of      *)
(* handleMessage (pc, and the name it resolved); sync holds the position   *)
(* of handleHistorySync (phase, the name it resolved, the index of the     *)
(* next message).                                                          *)
(***************************************************************************)
InterleaveEvents == {e \in LiveEvents : e.Message \in {TextPayload, NoTextPayload}}

PairLists ==
  {<<a, b>> : a, b \in {Envelope(SecondKey, 1, TextPayload)}
                         \cup {Envelope(ParticipantKey, ts, TextPayload) : ts \in Times}}

InterleaveConversations ==
  ConversationHeads
    \cup {Conversation(Ptr(JIDString(jid)), NilStr, NilStr, ms) :
            jid \in ChatJIDs, ms \in PairLists}

\* the two handlers are started
Start(e, c, env) ==
  /\ last.op = "init"
  /\ last' = [op |-> "run", evt |-> e, conversation |-> c, env |-> env,
              chats0 |-> chats, messages0 |-> messages,
              pc |-> "resolve", name |-> Empty]
  /\ sync' = [phase |-> "resolve", jid |-> NoJID, chatJID |-> Empty,
              name |-> Empty, idx |-> 1]
  /\ UNCHANGED <<chats, messages, connected>>

\* handleMessage: GetChatName
LiveResolve ==
  /\ last.op = "run" /\ last.pc = "resolve"
  /\ LET msg == EventOf(last.evt) IN
     last' = [last EXCEPT
                !.pc = "storeChat",
                !.name = GetChatName(chats, msg.Info.Chat, JIDString(msg.Info.Chat),
                                     NoConversation, msg.Info.Sender.User,
                                     last.env).name]
  /\ UNCHANGED <<chats, messages, connected, sync>>

\* handleMessage: StoreChat
LiveStoreChat ==
  /\ last.op = "run" /\ last.pc = "storeChat"
  /\ chats' = StoreChat(chats, JIDString(last.evt.Chat), last.name, last.evt.Timestamp)
  /\ last' = [last EXCEPT !.pc = "storeMessage"]
  /\ UNCHANGED <<messages, connected, sync>>

\* (the message upsert done on the table as it was when the handler started)
LiveStoreMessage_Stale ==
  /\ last.op = "run" /\ last.pc = "storeMessage"
  /\ LET msg == EventOf(last.evt)
         content == extractTextContent(msg.Message)
     IN messages' = IF content = Empty THEN messages
                    ELSE StoreMessage(chats, last.messages0, msg.Info.ID,
                                      JIDString(msg.Info.Chat), msg.Info.Sender.User,
                                      content, msg.Info.Timestamp, msg.Info.IsFromMe,
                                      Str("text")).messages
  /\ last' = [last EXCEPT !.pc = "done"]
  /\ UNCHANGED <<chats, connected, sync>>

\* handleMessage: the text is extracted, and StoreMessage is called unless
\* it is empty
LiveStoreMessage ==
  /\ last.op = "run" /\ last.pc = "storeMessage"
  /\ LET msg == EventOf(last.evt)
         content == extractTextContent(msg.Message)
     IN messages' = IF content = Empty THEN messages
                    ELSE StoreMessage(chats, messages, msg.Info.ID,
                                      JIDString(msg.Info.Chat), msg.Info.Sender.User,
                                      content, msg.Info.Timestamp, msg.Info.IsFromMe,
                                      Str("text")).messages
  /\ last' = [last EXCEPT !.pc = "done"]
  /\ UNCHANGED <<chats, connected, sync>>

\* handleHistorySync: the conversation is parsed and GetChatName is called
HistoryResolve ==
  /\ last.op = "run" /\ sync.phase = "resolve"
  /\ LET h == ConversationHead(chats, last.conversation, last.env) IN
     sync' = IF h.jid = NoJID
               THEN [sync EXCEPT !.phase = "done"]
               ELSE [phase |-> "storeChat", jid |-> h.jid, chatJID |-> h.chatJID,
                     name |-> h.res.name, idx |-> 1]
  /\ UNCHANGED <<chats, messages, connected, last>>

\* handleHistorySync: the tests on the most recent message, and StoreChat
HistoryStoreChat ==
  /\ last.op = "run" /\ sync.phase = "storeChat"
  /\ LET msgs == last.conversation.Messages IN
     IF Len(msgs) = 0 \/ msgs[1].nil \/ ~LatestHasTimestamp(msgs[1])
       THEN /\ sync' = [sync EXCEPT !.phase = "done"]
            /\ UNCHANGED chats
       ELSE /\ chats' = StoreChat(chats, sync.chatJID, sync.name,
                                  msgs[1].MessageTimestamp)
            /\ sync' = [sync EXCEPT !.phase = "msgs"]
  /\ UNCHANGED <<messages, connected, last>>

\* handleHistorySync: one turn of the loop over the messages
HistoryStoreMessage ==
  /\ last.op = "run" /\ sync.phase = "msgs"
  /\ LET msgs == last.conversation.Messages IN
     IF sync.idx > Len(msgs)
       THEN /\ sync' = [sync EXCEPT !.phase = "done"]
            /\ UNCHANGED messages
       ELSE /\ messages' = StoreHistoryMessage(chats,
                             [messages |-> messages, syncedCount |-> 0],
                             sync.jid, sync.chatJID, msgs[sync.idx]).messages
            /\ sync' = [sync EXCEPT !.idx = @ + 1]
  /\ UNCHANGED <<chats, connected, last>>

NextInterleave ==
  \/ \E e \in InterleaveEvents, c \in InterleaveConversations, env \in Envs :
       Start(e, c, env)
  \/ LiveResolve
  \/ LiveStoreChat
  \/ LiveStoreMessage
  \/ HistoryResolve
  \/ HistoryStoreChat
  \/ HistoryStoreMessage

SpecInterleave == Init /\ [][NextInterleave]_vars

\* the tables after handleMessage then handleHistorySync, one after another
LiveThenHistory ==
  LET a == handleMessage(last.chats0, last.messages0, EventOf(last.evt), last.env)
  IN handleHistorySync(a.chats, a.messages, <<last.conversation>>, last.env)

\* the tables after handleHistorySync then handleMessage, one after another
HistoryThenLive ==
  LET a == handleHistorySync(last.chats0, last.messages0, <<last.conversation>>,
                             last.env)
  IN handleMessage(a.chats, a.messages, EventOf(last.evt), last.env)

BothDone == last.op = "run" /\ last.pc = "done" /\ sync.phase = "done"

\* C17: when handleMessage and handleHistorySync have both ended, however
\* their steps were interleaved, the table messages holds the rows (keys
\* and contents) that running the two handlers one after another, in one
\* order or the other, leaves: no row is lost and none is added.
C17_InterleavingConverges ==
  BothDone => messages \in {LiveThenHistory.messages, HistoryThenLive.messages}

\* both handlers ended after handleMessage ran between the chat upsert and
\* the message loop of handleHistorySync, on the same chat and message id
C17_Witness ==
  /\ BothDone
  /\ JIDString(last.evt.Chat) = sync.chatJID
  /\ Len(last.conversation.Messages) = 2
  /\ Cardinality(DOMAIN messages) = 2
  /\ LiveThenHistory.messages # HistoryThenLive.messages
  /\ messages = LiveThenHistory.messages

\* C19: in no step of the interleaved handlers does a chat row that has a
\* non-empty name get another name.
C19_StoredNameStable ==
  [][\A k \in DOMAIN chats :
       chats[k].name # Empty => (k \in DOMAIN chats' /\ chats'[k].name = chats[k].name)]_vars

(***************************************************************************)
(* The registered callback as a whole: handleEvent is given any event of   *)
(* the session and switches on its type.  The cases are *events.Message,   *)
(* *events.Connected, *events.Disconnected and *events.LoggedOut; an event *)
(* of another type, *events.HistorySync included, matches no case.  last   *)
(* records the event, the directory at that time and the tables before.    *)
(***************************************************************************)
MessageEvent(e) == [type |-> "Message", msg |-> EventOf(e), conversations |-> <<>>]
HistorySyncEvent(b) == [type |-> "HistorySync", msg |-> EventOf(CHOOSE e \in LiveEvents : TRUE),
                        conversations |-> b]
SessionEvent(t) == [type |-> t, msg |-> EventOf(CHOOSE e \in LiveEvents : TRUE),
                    conversations |-> <<>>]

SessionEvents ==
  {MessageEvent(e) : e \in LiveEvents}
    \cup {HistorySyncEvent(<<c>>) : c \in ConversationHeads}
    \cup {SessionEvent(t) : t \in {"Connected", "Disconnected", "LoggedOut"}}

\* handleEvent: the switch on the type of the event
handleEvent(chs, msgs, evt) ==
  CASE evt.type = "Message" ->
         LET r == handleEventMessage(chs, msgs, evt.msg) IN
         [chats |-> r.chats, messages |-> r.messages]
    [] evt.type \in {"Connected", "Disconnected", "LoggedOut"} ->
         [chats |-> chs, messages |-> msgs]
    [] OTHER -> [chats |-> chs, messages |-> msgs]

\* a live message was handled before
DispatchSeed(e, env) ==
  /\ last.op = "init"
  /\ HandleMessageStep(e, env)
  /\ last' = [op |-> "seed"]

\* the session delivers an event to the callback
Dispatch(evt, env) ==
  /\ last.op \in {"init", "seed"}
  /\ LET r == handleEvent(chats, messages, evt) IN
     /\ chats' = r.chats
     /\ messages' = r.messages
  /\ last' = [op |-> "dispatch", evt |-> evt, env |-> env, chats0 |-> chats,
              messages0 |-> messages]
  /\ UNCHANGED <<connected, sync>>

NextDispatch ==
  \/ \E e \in SeedEvents, env \in Envs : DispatchSeed(e, env)
  \/ \E evt \in SessionEvents, env \in Envs : Dispatch(evt, env)

SpecDispatch == Init /\ [][NextDispatch]_vars

\* C18: when the callback has returned from a history sync event, the tables
\* are those handleHistorySync leaves on its conversations; when it has
\* returned from a message event, they are those handleMessage leaves
\* (name resolved, chat upsert, then message upsert unless the text is
\* empty).
C18_EventsReachTheirPath ==
  last.op = "dispatch" =>
    /\ last.evt.type = "HistorySync" =>
         LET r == handleHistorySync(last.chats0, last.messages0,
                                    last.evt.conversations, last.env)
         IN chats = r.chats /\ messages = r.messages
    /\ last.evt.type = "Message" =>
         LET r == handleMessage(last.chats0, last.messages0, last.evt.msg, last.env)
         IN chats = r.chats /\ messages = r.messages

(***************************************************************************)
(* Claims on the identity of a message row.                                *)
(***************************************************************************)
RowIDs == {Str("m1"), Str("m2")}
RowSenders == {Empty, Str("999")}
RowContents == {TextBuy, Str("sell")}
RowMediaTypes == {Str("text"), Str("image")}

\* C20: StoreMessage called with a text, on a chat that has a row, leaves
\* under (id, chat_jid) exactly the row of the values given (all columns
\* replaced when the key had a row), and leaves every other row as it was:
\* a row with the same id in another chat is not touched.
C20_KeyIsIdAndChat ==
  \A id \in RowIDs, chatJID \in DOMAIN chats, sender \in RowSenders,
     content \in RowContents, ts \in Times, isFromMe \in BOOLEAN,
     mediaType \in RowMediaTypes :
    LET r == StoreMessage(chats, messages, id, chatJID, sender, content, ts,
                          isFromMe, mediaType)
    IN /\ ~r.err
       /\ DOMAIN r.messages = DOMAIN messages \cup {<<id, chatJID>>}
       /\ r.messages[<<id, chatJID>>]
            = [sender |-> IF sender = Empty THEN Str("unknown") ELSE sender,
               content |-> content, timestamp |-> FormatTime(ts),
               is_from_me |-> isFromMe, media_type |-> mediaType]
       /\ \A k \in DOMAIN messages \ {<<id, chatJID>>} : r.messages[k] = messages[k]

\* the two chats hold a message with the same id, with rows that differ
C20_Witness ==
  /\ <<Str("m1"), JIDString(GroupJID)>> \in DOMAIN messages
  /\ <<Str("m1"), JIDString(UserJID)>> \in DOMAIN messages
  /\ messages[<<Str("m1"), JIDString(GroupJID)>>].sender = Str("999")
  /\ messages[<<Str("m1"), JIDString(GroupJID)>>].is_from_me
  /\ messages[<<Str("m1"), JIDString(UserJID)>>].sender = Str("555")
  /\ ~messages[<<Str("m1"), JIDString(UserJID)>>].is_from_me

(***************************************************************************)
(* The sender of the messages of a history sync: handleHistorySync runs    *)
(* on a batch of one conversation of two text messages whose keys take     *)
(* every form (no key, from-me flag absent, set or not set, participant    *)
(* absent, empty or given), for a group, a contact and an address without  *)
(* user part.  last records the conversation.                              *)
(***************************************************************************)
KeyForms(id) ==
  {NilKey}
    \cup {Key(f, p, Ptr(id)) : f \in {NilBool, PtrBool(TRUE), PtrBool(FALSE)},
                               p \in {NilStr, Ptr(Empty), Ptr(Str("777"))}}

SenderConversations ==
  {Conversation(Ptr(JIDString(jid)), NilStr, NilStr,
                <<Envelope(k1, ts, TextPayload), Envelope(k2, 1, TextPayload)>>) :
     jid \in ChatJIDs \cup {ServerJID}, ts \in Times,
     k1 \in KeyForms(Str("m1")), k2 \in KeyForms(Str("m2"))}

\* handleHistorySync runs on a batch of one conversation
ReconcileSenders(c, env) ==
  /\ last.op = "init"
  /\ LET r == handleHistorySync(chats, messages, <<c>>, env) IN
     /\ chats' = r.chats
     /\ messages' = r.messages
     /\ last' = [op |-> "senders", conversation |-> c, env |-> env,
                 syncedCount |-> r.syncedCount]
  /\ UNCHANGED <<connected, sync>>

NextSender == \E c \in SenderConversations, env \in Envs : ReconcileSenders(c, env)

SpecSender == Init /\ [][NextSender]_vars

\* the sender named for an envelope: the own user when the from-me flag is
\* set, else the participant when given and not empty, else the user part
\* of the chat address
NamedSender(key, jid) ==
  IF ~key.nil /\ ~key.FromMe.nil /\ key.FromMe.v THEN OwnUser
  ELSE IF ~key.nil /\ ~key.Participant.nil /\ key.Participant.v # Empty
    THEN key.Participant.v
  ELSE jid.User

\* the envelope i of the conversation is the last one with its message id
LastWithItsID(msgs, i) ==
  \A j \in (i + 1)..Len(msgs) : HistoryMsgID(msgs[j].Key) # HistoryMsgID(msgs[i].Key)

\* the row of messages written for the envelope i of the conversation
SenderRow(i) ==
  messages[<<HistoryMsgID(last.conversation.Messages[i].Key), last.conversation.ID.v>>]

\* C21 (as stated): the row stored for each envelope of the conversation
\* has as sender the own user when the from-me flag of the envelope is set,
\* else its participant when given and not empty, else the user part of the
\* chat address, also when the envelope has no key.
C21_SenderAsStated ==
  last.op = "senders" =>
    \A i \in DOMAIN last.conversation.Messages :
      LastWithItsID(last.conversation.Messages, i) =>
        SenderRow(i).sender
          = NamedSender(last.conversation.Messages[i].Key,
                        ParseJID(last.conversation.ID.v).jid)

\* C21 (amended): the row stored for each envelope has the sender named
\* above, and "unknown" when that sender is the empty text (the user part
\* of a chat address that has none).
C21_SenderOrUnknown ==
  last.op = "senders" =>
    \A i \in DOMAIN last.conversation.Messages :
      LastWithItsID(last.conversation.Messages, i) =>
        LET named == NamedSender(last.conversation.Messages[i].Key,
                                 ParseJID(last.conversation.ID.v).jid)
        IN SenderRow(i).sender = IF named = Empty THEN Str("unknown") ELSE named

\* a group conversation was stored whose first envelope is from the own
\* account though it names a participant, and whose second has no key
C21_Witness ==
  /\ last.op = "senders"
  /\ last.conversation.ID.v = JIDString(GroupJID)
  /\ last.conversation.Messages[1].Key
       = Key(PtrBool(TRUE), Ptr(Str("777")), Ptr(Str("m1")))
  /\ last.conversation.Messages[2].Key = NilKey
  /\ messages[<<Str("m1"), JIDString(GroupJID)>>].sender = OwnUser
  /\ messages[<<Empty, JIDString(GroupJID)>>].sender = GroupJID.User

(***************************************************************************)
(* Claims on the malformed items of a history sync batch.                  *)
(***************************************************************************)
\* the conversation has a chat address and the address parses
AddressOK(c) == ~c.ID.nil /\ ~ParseJID(c.ID.v).err

\* the envelope is there, has a text and has a timestamp
EnvelopeOK(m) ==
  /\ ~m.nil
  /\ ~m.Message.nil
  /\ \/ m.Message.Conversation # Empty
     \/ (~m.Message.ExtendedText.nil /\ m.Message.ExtendedText.v # Empty)
  /\ m.MessageTimestamp # 0

\* the most recent message of the conversation is there and has a timestamp
HeadOK(c) ==
  /\ Len(c.Messages) > 0
  /\ ~c.Messages[1].nil
  /\ c.Messages[1].MessageTimestamp # 0

\* the key of the row of the envelope i of the conversation j of the batch
BatchKey(j, i) ==
  <<HistoryMsgID(last.batch[j].Messages[i].Key), last.batch[j].ID.v>>

\* the positions (conversation, envelope) of the batch
BatchPositions ==
  {p \in (1..Len(last.batch)) \X (1..MaxMsgs) : p[2] <= Len(last.batch[p[1]].Messages)}

\* position q comes after position p in the batch
After(p, q) == q[1] > p[1] \/ (q[1] = p[1] /\ q[2] > p[2])

\* C22 (as stated): when handleHistorySync has run on a batch, every
\* envelope that has a text and a timestamp, in a conversation whose address
\* parses, has its row in messages, whatever the other conversations and
\* the other envelopes of the batch are; the row has the timestamp of the
\* envelope when no later such envelope has the same key.
C22_DropsOnlyTheItem ==
  last.op = "sync" =>
    \A p \in BatchPositions :
      (AddressOK(last.batch[p[1]]) /\ EnvelopeOK(last.batch[p[1]].Messages[p[2]])) =>
        /\ BatchKey(p[1], p[2]) \in DOMAIN messages
        /\ (\A q \in BatchPositions :
              (After(p, q) /\ AddressOK(last.batch[q[1]])
                 /\ EnvelopeOK(last.batch[q[1]].Messages[q[2]]))
                => BatchKey(q[1], q[2]) # BatchKey(p[1], p[2]))
             => messages[BatchKey(p[1], p[2])].timestamp
                  = FormatTime(last.batch[p[1]].Messages[p[2]].MessageTimestamp)

\* the envelope at position p is one handleHistorySync is to store: it has
\* a text and a timestamp, the address of its conversation parses, and the
\* most recent message of its conversation is there and has a timestamp
Storable(p) ==
  /\ AddressOK(last.batch[p[1]])
  /\ HeadOK(last.batch[p[1]])
  /\ EnvelopeOK(last.batch[p[1]].Messages[p[2]])

\* C22 (amended): when handleHistorySync has run on a batch, every envelope
\* that has a text and a timestamp, in a conversation whose address parses
\* and whose most recent message is there and has a timestamp, has its row
\* in messages, whatever the other conversations and the other envelopes of
\* the batch are; the row has the timestamp of the envelope when no later
\* such envelope has the same key.
C22_DropsItemOrHeadlessConversation ==
  last.op = "sync" =>
    \A p \in BatchPositions :
      Storable(p) =>
        /\ BatchKey(p[1], p[2]) \in DOMAIN messages
        /\ (\A q \in BatchPositions :
              (After(p, q) /\ Storable(q)) => BatchKey(q[1], q[2]) # BatchKey(p[1], p[2]))
             => messages[BatchKey(p[1], p[2])].timestamp
                  = FormatTime(last.batch[p[1]].Messages[p[2]].MessageTimestamp)

\* a conversation whose most recent message has no text was synced into an
\* empty store, and the message after it is stored
C22_Witness ==
  /\ last.op = "sync"
  /\ last.messages0 = EmptyTable
  /\ last.batch = <<Conversation(Ptr(JIDString(GroupJID)), NilStr, NilStr,
                                 <<Envelope(ParticipantKey, 1, NoTextPayload),
                                   Envelope(SecondKey, 1, TextPayload)>>)>>
  /\ DOMAIN messages = {<<Str("m2"), JIDString(GroupJID)>>}

(***************************************************************************)
(* Claims on the last activity of a chat.                                  *)
(***************************************************************************)
\* C23: in no step of the live handlers and of the history sync does a chat
\* row lose its place in chats or get a last_message_time earlier than the
\* one it had.
C23_LastActivityNeverDecreases ==
  [][\A k \in DOMAIN chats :
       /\ k \in DOMAIN chats'
       /\ ParseTime(chats'[k].last_message_time)
            >= ParseTime(chats[k].last_message_time)]_vars

====
